---------------------------- MODULE Spec2Model ----------------------------
(***************************************************************************)
(* A model of make_protein_matching_toy.py: the bead generator that builds *)
(* pairs of solid hemispheres with pegs (top, UNION) and sockets (bottom,  *)
(* DIFFERENCE) at random, non-overlapping positions.                       *)
(*                                                                         *)
(* Lengths are integers in units of 1/20 mm, so that every quantity the    *)
(* script computes (height / 2, r * cos(ang), PEG_LENGTH + CLEARANCE) is   *)
(* exact.  Random draws, and the outcomes of the host's operators          *)
(* (bpy.ops), are nondeterministic choices.                                *)
(***************************************************************************)
EXTENDS Integers, Sequences, FiniteSets, TLC

VARIABLES
  pc,          \* position in generate_beads / add_keys / random_key_positions
  log_file,    \* the global log_file: "none", "open" or "closed"
  log,         \* what log_message has written or printed, counted by kind
  idx,         \* generate_beads: the bead index of the for loop
  specs,       \* generate_beads: list(zip(KEY_SHAPES, positions))
  top,         \* generate_beads: the object bound to top
  bottom,      \* generate_beads: the object bound to bottom
  objs,        \* the host's mesh objects of the current bead
  mode,        \* the host's interaction mode: "OBJECT" or "EDIT"
  active,      \* the host's active object
  n,           \* random_key_positions: its parameter
  coords,      \* random_key_positions: the accepted positions
  attempts,    \* random_key_positions: the attempt counter
  draw,        \* random_key_positions: the last candidate's draw u and radius r
  hemisphere,  \* add_keys: its parameter hemisphere
  key_specs,   \* add_keys: its parameter key_specs
  is_top,      \* add_keys: its parameter is_top
  i,           \* add_keys: the enumerate index
  key,         \* add_keys: the tool object bound to key
  tools,       \* the host's tool objects (pegs and socket cutters) in the scene
  pegs,        \* the tools add_keys created for the top half of this bead
  sockets,     \* the tools add_keys created for the bottom half of this bead
  top_built,   \* the top object's state when add_keys(top, ...) returned
  exported,    \* the halves of this bead handed to export_stl
  fault        \* the unexpected failure that reached the orchestrator, if any

vars == <<pc, log_file, log, idx, specs, top, bottom, objs, mode, active,
          n, coords, attempts, draw, hemisphere, key_specs, is_top, i, key,
          tools, pegs, sockets, top_built, exported, fault>>

-----------------------------------------------------------------------------
(* USER SETTINGS, in 1/20 mm.  OVERLAP_OLD is the 0.25 mm that the source  *)
(* keeps in a comment beside OVERLAP = 11.                                 *)

SPHERE_DIAMETER == 1200
WALL_THICKNESS == 60
PEG_LENGTH == 400
CLEARANCE == 10
OVERLAP_OLD == 5
OVERLAP == 220
BEAD_COUNT == 4
KEY_SHAPES == <<"cylinder", "triangle", "square", "hexagon">>
KEYS_PER_BEAD == Len(KEY_SHAPES)
OUTER_R == SPHERE_DIAMETER \div 2
INNER_R == OUTER_R - WALL_THICKNESS
MAX_KEY_RADIUS == 120
ATTEMPT_LIMIT == 1000

(* Bounds of the model *)
MaxN == 4          \* random_key_positions(n) alone is explored for n in 0..MaxN
MaxFailures == 1   \* operator failures (caught RuntimeErrors) injected per run

(* random.uniform(0, 1) sampled at u = num / den: both ends and the middle. *)
UniformDraws == {<<0, 1>>, <<1, 2>>, <<1, 1>>}

(* Angles of random.uniform(0, 2*pi) at which cos and sin are rational:    *)
(* <<5 cos(ang), 5 sin(ang)>> for ang = 0, pi/2 and pi + atan(4/3).          *)
Angles == {<<5, 0>>, <<0, 5>>, <<-3, -4>>}

Sq(a) == a * a

-----------------------------------------------------------------------------
(* random_key_positions *)

(* The disk the key centres are drawn from (a variant: the whole base). *)
usable_radius_wide == INNER_R
usable_radius_for_keys == INNER_R - MAX_KEY_RADIUS

(* r = random.uniform(0, usable_radius_for_keys) = 0 + (usable - 0) * u *)
uniform_radius(u) == (usable_radius_for_keys * u[1]) \div u[2]

(* x, y = r * math.cos(ang), r * math.sin(ang) *)
position(r, ang) == <<(r * ang[1]) \div 5, (r * ang[2]) \div 5>>

(* math.hypot(x - cx, y - cy) > MAX_KEY_RADIUS * 2, squared (a variant:   *)
(* one radius instead of two).                                             *)
far_half(p, c) == Sq(p[1] - c[1]) + Sq(p[2] - c[2]) > Sq(MAX_KEY_RADIUS)
far(p, c) == Sq(p[1] - c[1]) + Sq(p[2] - c[2]) > Sq(MAX_KEY_RADIUS * 2)

(* all(... for cx, cy in coords) *)
accepts(cs, p) == \A k \in 1..Len(cs) : far(p, cs[k])

(* while len(coords) < n and attempts < 1000 (a variant: <= 1000) *)
loop_one_more(cs, a, nn) == Len(cs) < nn /\ a <= ATTEMPT_LIMIT
loop_condition(cs, a, nn) == Len(cs) < nn /\ a < ATTEMPT_LIMIT

NoDraw == [u |-> <<0, 1>>, r |-> -1]


-----------------------------------------------------------------------------
(* The host's scene: the mesh objects of the bead under construction.  The *)
(* objects of finished beads stay in the scene and are never touched again *)
(* (export_stl leaves the host in OBJECT mode), so they are left out.      *)

Ids == {"obj1", "obj2"}
Blank == [exists |-> FALSE, geom |-> <<>>, mods |-> <<>>]
NoObjects == [o \in Ids |-> Blank]
new_object(os) == IF ~os["obj1"].exists THEN "obj1" ELSE "obj2"

(* One geometry-changing operation applied to a mesh. *)
GeomOp(op, arg, x, y) == [op |-> op, arg |-> arg, x |-> x, y |-> y]
half(isTop) == IF isTop THEN "top" ELSE "bottom"

NoKey == [kind |-> "none", shape |-> "none", index |-> 0, x |-> 0, y |-> 0,
          z |-> 0, radius |-> 0, height |-> 0]
NoFault == [stage |-> "none", idx |-> 0]
NoLog == [open_err |-> 0, bool_err |-> 0, cleanup_err |-> 0, export_err |-> 0,
          critical |-> 0]

(* log_message, and the prints of generate_beads: the entry is written to  *)
(* the file or printed, never lost.                                        *)
log_message(l, kind) == [l EXCEPT ![kind] = @ + 1]

(* The failures the script catches where they happen (open, boolean,       *)
(* cleanup, export).                                                       *)
failures(l) == l.open_err + l.bool_err + l.cleanup_err + l.export_err
may_fail == failures(log) < MaxFailures

(* list(zip(KEY_SHAPES, positions)): as long as the shorter of the two. *)
zip(a, b) ==
  LET m == IF Len(a) < Len(b) THEN Len(a) ELSE Len(b)
  IN  [k \in 1..m |-> <<a[k], b[k]>>]

(* The key_specs argument generate_beads passes to add_keys (a variant:   *)
(* the bottom half gets the positions mirrored in x).                      *)
key_specs_mirrored(s, isTop) ==
  IF isTop THEN s ELSE [k \in 1..Len(s) |-> <<s[k][1], <<-s[k][2][1], s[k][2][2]>>>>]
key_specs_arg(s, isTop) == s

(* The tool add_keys builds for key ii of shape sh at p. *)
make_key(sh, p, isTop, ii) ==
  IF isTop
  THEN LET radius == MAX_KEY_RADIUS
           height == PEG_LENGTH
       IN  [kind |-> "Peg", shape |-> sh, index |-> ii, x |-> p[1], y |-> p[2],
            z |-> -((height \div 2) - OVERLAP), radius |-> radius, height |-> height]
  ELSE LET radius == MAX_KEY_RADIUS + CLEARANCE
           height == PEG_LENGTH + CLEARANCE
       IN  [kind |-> "SocketCutter", shape |-> sh, index |-> ii, x |-> p[1], y |-> p[2],
            z |-> (height \div 2) - OVERLAP, radius |-> radius, height |-> height]

(* bpy.data.objects.remove(key, do_unlink=True) (a variant: no removal) *)
remove_nothing(ts, k) == ts
remove_object(ts, k) == ts \ {k}

(* Modifiers that pointed at a removed object point at nothing. *)
unlink(ms) == [k \in 1..Len(ms) |-> [ms[k] EXCEPT !.object = "none"]]

(* Where an exception raised inside generate_beads' try block goes: to    *)
(* the except clause (a variant: to the caller).                           *)
on_exception_unhandled == "raised"
on_exception == "except"

-----------------------------------------------------------------------------
Init ==
  /\ pc = "start"
  /\ log_file = "none"
  /\ log = NoLog
  /\ idx = 0
  /\ specs = <<>>
  /\ top = "none"
  /\ bottom = "none"
  /\ objs = NoObjects
  /\ mode = "OBJECT"
  /\ active = "none"
  /\ n = 0
  /\ coords = <<>>
  /\ attempts = 0
  /\ draw = NoDraw
  /\ hemisphere = "none"
  /\ key_specs = <<>>
  /\ is_top = FALSE
  /\ i = 0
  /\ key = NoKey
  /\ tools = {}
  /\ pegs = <<>>
  /\ sockets = <<>>
  /\ top_built = Blank
  /\ exported = {}
  /\ fault = NoFault

placement == <<n, coords, attempts, draw>>
locals == <<hemisphere, key_specs, is_top, i, key>>
history == <<pegs, sockets, top_built, exported>>
scene == <<objs, mode, active, tools>>

(* An exception that no handler below generate_beads catches: the frames   *)
(* of the callees are unwound and control reaches generate_beads' handler. *)
Raise(stage) ==
  /\ pc' = on_exception
  /\ fault' = [stage |-> stage, idx |-> idx]
  /\ hemisphere' = "none"
  /\ key_specs' = <<>>
  /\ is_top' = FALSE
  /\ i' = 0
  /\ key' = NoKey

-----------------------------------------------------------------------------
(* generate_beads, up to the bead loop *)

(* base_output_dir = get_output_dir(); None: print and return. *)
GetOutputDir ==
  /\ pc = "start"
  /\ \/ pc' = "open_log"
     \/ pc' = "returned"
  /\ UNCHANGED <<log_file, log, idx, specs, top, bottom, fault>>
  /\ UNCHANGED <<scene, placement, locals, history>>

(* log_file = open(log_filepath, "w"), or None when open fails. *)
OpenLog ==
  /\ pc = "open_log"
  /\ \/ log_file' = "open" /\ UNCHANGED log
     \/ may_fail /\ log_file' = "none" /\ log' = log_message(log, "open_err")
  /\ pc' = "setup"
  /\ UNCHANGED <<idx, specs, top, bottom, fault>>
  /\ UNCHANGED <<scene, placement, locals, history>>

(* random.seed(SEED); the mode guard; wipe_scene(); idx = 1. *)
Setup ==
  /\ pc = "setup"
  /\ \/ /\ mode' = "OBJECT"
        /\ objs' = NoObjects
        /\ tools' = {}
        /\ active' = "none"
        /\ idx' = 1
        /\ pc' = "bead"
        /\ UNCHANGED <<fault, locals>>
     \/ /\ Raise("setup")
        /\ UNCHANGED <<scene, idx>>
  /\ UNCHANGED <<log_file, log, specs, top, bottom>>
  /\ UNCHANGED <<placement, history>>

(* for idx in range(1, BEAD_COUNT + 1): the next bead starts with the call *)
(* random_key_positions(KEYS_PER_BEAD); after the last one the run ends.   *)
(* specs, top and bottom are rebound before they are read again, and the   *)
(* finished bead's objects are not touched again: they leave the model.    *)
BeadLoop ==
  /\ pc = "bead"
  /\ IF idx <= BEAD_COUNT
     THEN /\ pc' = "place"
          /\ n' = KEYS_PER_BEAD
          /\ coords' = <<>>
          /\ attempts' = 0
          /\ draw' = NoDraw
          /\ objs' = NoObjects
          /\ active' = "none"
          /\ specs' = <<>>
          /\ top' = "none"
          /\ bottom' = "none"
          /\ pegs' = <<>>
          /\ sockets' = <<>>
          /\ top_built' = Blank
          /\ exported' = {}
     ELSE /\ pc' = "finally"
          /\ UNCHANGED <<placement, objs, active, specs, top, bottom, history>>
  /\ UNCHANGED <<log_file, log, idx, mode, tools, fault>>
  /\ UNCHANGED locals

-----------------------------------------------------------------------------
(* random_key_positions(n) *)

(* One iteration of the while loop: draw r and ang, test, count.  r is     *)
(* dead once the candidate is tested; the draw is kept for inspection when *)
(* the function runs on its own (idx = 0), not inside generate_beads.      *)
KeyPositionsIter ==
  /\ pc = "place"
  /\ loop_condition(coords, attempts, n)
  /\ \E u \in UniformDraws, ang \in Angles :
       LET r == uniform_radius(u)
           p == position(r, ang)
       IN  /\ draw' = IF idx = 0 THEN [u |-> u, r |-> r] ELSE NoDraw
           /\ coords' = IF accepts(coords, p) THEN Append(coords, p) ELSE coords
  /\ attempts' = attempts + 1
  /\ UNCHANGED <<pc, log_file, log, idx, specs, top, bottom, n, fault>>
  /\ UNCHANGED <<scene, locals, history>>

(* return coords *)
KeyPositionsReturn ==
  /\ pc = "place"
  /\ ~loop_condition(coords, attempts, n)
  /\ pc' = "placed"
  /\ UNCHANGED <<log_file, log, idx, specs, top, bottom, fault>>
  /\ UNCHANGED <<scene, placement, locals, history>>

(* specs = list(zip(KEY_SHAPES, random_key_positions(KEYS_PER_BEAD))) *)
MakeSpecs ==
  /\ pc = "placed"
  /\ idx >= 1
  /\ specs' = zip(KEY_SHAPES, coords)
  /\ n' = 0
  /\ coords' = <<>>
  /\ attempts' = 0
  /\ draw' = NoDraw
  /\ pc' = "make_top"
  /\ UNCHANGED <<log_file, log, idx, top, bottom, fault>>
  /\ UNCHANGED <<scene, locals, history>>

-----------------------------------------------------------------------------
(* make_solid_hemisphere(isTop), then the entry of add_keys(obj, specs, isTop) *)

(* The host adds a primitive as a new object in OBJECT mode, and into the  *)
(* mesh being edited in EDIT mode, where the active object stays the one   *)
(* being edited; the bisect then cuts that mesh.                           *)
sphere_added(os, isTop) ==
  IF mode = "EDIT"
  THEN [os EXCEPT ![active].geom = Append(@, GeomOp("sphere", "joined", 0, 0))]
  ELSE [os EXCEPT ![new_object(os)] =
          [exists |-> TRUE, geom |-> <<GeomOp("sphere", "new", 0, 0)>>, mods |-> <<>>]]

bisected(os, o, isTop) ==
  [os EXCEPT ![o].geom = Append(@, GeomOp("bisect", half(isTop), 0, 0))]

MakeHemisphere(isTop) ==
  LET obj == IF mode = "EDIT" THEN active ELSE new_object(objs)
  IN  \/ /\ objs' = bisected(sphere_added(objs, isTop), obj, isTop)
         /\ active' = obj
         /\ mode' = "OBJECT"
         /\ IF isTop
            THEN top' = obj /\ UNCHANGED bottom
            ELSE bottom' = obj /\ UNCHANGED top
         /\ hemisphere' = obj
         /\ key_specs' = key_specs_arg(specs, isTop)
         /\ is_top' = isTop
         /\ i' = 1
         /\ key' = NoKey
         /\ pc' = "key_loop"
         /\ UNCHANGED fault
      \/ \* the primitive's operator raises: nothing was added
         /\ Raise("hemisphere")
         /\ UNCHANGED <<objs, active, mode, top, bottom>>
      \/ \* in EDIT mode a call after the primitive raises (bm.to_mesh on a
         \* mesh that is being edited, or an operator in the wrong mode)
         /\ mode = "EDIT"
         /\ Raise("hemisphere")
         /\ objs' = sphere_added(objs, isTop)
         /\ UNCHANGED <<active, mode, top, bottom>>

BuildTop ==
  /\ pc = "make_top"
  /\ MakeHemisphere(TRUE)
  /\ UNCHANGED <<log_file, log, idx, specs, tools>>
  /\ UNCHANGED <<placement, history>>

BuildBottom ==
  /\ pc = "make_bottom"
  /\ MakeHemisphere(FALSE)
  /\ UNCHANGED <<log_file, log, idx, specs, tools>>
  /\ UNCHANGED <<placement, history>>

-----------------------------------------------------------------------------
(* add_keys: the loop over key_specs *)

(* key = factory(radius, height); key.name; key.location *)
KeyCreate ==
  /\ pc = "key_loop"
  /\ i <= Len(key_specs)
  /\ \/ LET k == make_key(key_specs[i][1], key_specs[i][2], is_top, i)
        IN  /\ key' = k
            /\ tools' = tools \cup {k}
            /\ active' = "key"
            /\ IF is_top
               THEN pegs' = Append(pegs, k) /\ UNCHANGED sockets
               ELSE sockets' = Append(sockets, k) /\ UNCHANGED pegs
            /\ pc' = "boolean"
            /\ UNCHANGED <<hemisphere, key_specs, is_top, i, fault>>
     \/ \* the factory's primitive operator raises: no tool was created
        /\ Raise("key")
        /\ UNCHANGED <<tools, active, pegs, sockets>>
  /\ UNCHANGED <<log_file, log, idx, specs, top, bottom, objs, mode>>
  /\ UNCHANGED <<placement, top_built, exported>>

(* boolean(hemisphere, key, op): the modifier is added to the target; when *)
(* modifier_apply succeeds the host applies it to the mesh and takes it    *)
(* off the stack; when it raises RuntimeError the handler only logs.       *)
operation(isTop) == IF isTop THEN "UNION" ELSE "DIFFERENCE"

modifier_added(os, h, isTop) ==
  [os EXCEPT ![h].mods = Append(@, [operation |-> operation(isTop), object |-> "key"])]

modifier_applied(os, h, k) ==
  [os EXCEPT ![h].geom = Append(@, GeomOp(operation(k.kind = "Peg"), k.shape, k.x, k.y)),
             ![h].mods = SubSeq(@, 1, Len(@) - 1)]

KeyBoolean ==
  /\ pc = "boolean"
  /\ active' = hemisphere
  /\ \/ /\ objs' = modifier_applied(modifier_added(objs, hemisphere, is_top), hemisphere, key)
        /\ UNCHANGED log
     \/ /\ may_fail
        /\ objs' = modifier_added(objs, hemisphere, is_top)
        /\ log' = log_message(log, "bool_err")
  /\ pc' = "remove"
  /\ UNCHANGED <<log_file, idx, specs, top, bottom, mode, tools, fault>>
  /\ UNCHANGED <<placement, locals, history>>

(* bpy.data.objects.remove(key, do_unlink=True); the next key *)
KeyRemove ==
  /\ pc = "remove"
  /\ tools' = remove_object(tools, key)
  /\ objs' = [objs EXCEPT ![hemisphere].mods = unlink(@)]
  /\ key' = NoKey
  /\ i' = i + 1
  /\ pc' = "key_loop"
  /\ UNCHANGED <<log_file, log, idx, specs, top, bottom, mode, active, fault>>
  /\ UNCHANGED <<placement, hemisphere, key_specs, is_top, history>>

(* The mesh cleanup after the loop, and the return to generate_beads.  The *)
(* try block enters EDIT mode, runs remove_doubles and                     *)
(* normals_make_consistent, and leaves EDIT mode; a RuntimeError of any of *)
(* them is logged, and the host stays in the mode it was in.               *)
MeshCleanup ==
  /\ pc = "key_loop"
  /\ i > Len(key_specs)
  /\ active' = hemisphere
  /\ \/ /\ objs' = [objs EXCEPT ![hemisphere].geom = Append(@, GeomOp("cleanup", "", 0, 0))]
        /\ mode' = "OBJECT"
        /\ UNCHANGED log
     \/ \* mode_set(mode='EDIT') raises
        /\ may_fail
        /\ mode' = "OBJECT"
        /\ log' = log_message(log, "cleanup_err")
        /\ UNCHANGED objs
     \/ \* an operator raises after EDIT mode was entered
        /\ may_fail
        /\ mode' = "EDIT"
        /\ log' = log_message(log, "cleanup_err")
        /\ UNCHANGED objs
  /\ IF is_top
     THEN top_built' = objs'[top] /\ pc' = "make_bottom"
     ELSE UNCHANGED top_built /\ pc' = "export_top"
  /\ hemisphere' = "none"
  /\ key_specs' = <<>>
  /\ is_top' = FALSE
  /\ i' = 0
  /\ UNCHANGED <<log_file, idx, specs, top, bottom, tools, key, fault>>
  /\ UNCHANGED <<placement, pegs, sockets, exported>>

-----------------------------------------------------------------------------
(* export_stl, and the rest of generate_beads *)

(* export_stl(obj, folder, name): the mode guard, the selection, and the   *)
(* export inside try / except RuntimeError.                                *)
ExportStl(name) ==
  \/ /\ mode' = "OBJECT"
     /\ exported' = exported \cup {name}
     /\ \/ UNCHANGED log
        \/ may_fail /\ log' = log_message(log, "export_err")
     /\ UNCHANGED <<fault, locals>>
  \/ \* an operator outside the try block raises
     /\ Raise("export")
     /\ UNCHANGED <<mode, exported, log>>

ExportTop ==
  /\ pc = "export_top"
  /\ ExportStl("top")
  /\ pc' = IF fault' = fault THEN "export_bottom" ELSE on_exception
  /\ UNCHANGED <<log_file, idx, specs, top, bottom, objs, active, tools>>
  /\ UNCHANGED <<placement, pegs, sockets, top_built>>

(* The second export, the layout lines of the log, and the next idx. *)
ExportBottom ==
  /\ pc = "export_bottom"
  /\ ExportStl("bottom")
  /\ IF fault' = fault
     THEN pc' = "bead" /\ idx' = idx + 1
     ELSE pc' = on_exception /\ UNCHANGED idx
  /\ UNCHANGED <<log_file, specs, top, bottom, objs, active, tools>>
  /\ UNCHANGED <<placement, pegs, sockets, top_built>>

(* except Exception as e: the error and the traceback are logged. *)
Except ==
  /\ pc = "except"
  /\ log' = log_message(log, "critical")
  /\ pc' = "finally"
  /\ UNCHANGED <<log_file, idx, specs, top, bottom, fault>>
  /\ UNCHANGED <<scene, placement, locals, history>>

(* finally: the log file is closed if it is open. *)
Finally ==
  /\ pc = "finally"
  /\ log_file' = IF log_file = "open" THEN "closed" ELSE log_file
  /\ pc' = "returned"
  /\ UNCHANGED <<log, idx, specs, top, bottom, fault>>
  /\ UNCHANGED <<scene, placement, locals, history>>

Next ==
  \/ GetOutputDir
  \/ OpenLog
  \/ Setup
  \/ BeadLoop
  \/ KeyPositionsIter
  \/ KeyPositionsReturn
  \/ MakeSpecs
  \/ BuildTop
  \/ BuildBottom
  \/ KeyCreate
  \/ KeyBoolean
  \/ KeyRemove
  \/ MeshCleanup
  \/ ExportTop
  \/ ExportBottom
  \/ Except
  \/ Finally

Spec == Init /\ [][Next]_vars

-----------------------------------------------------------------------------
(* random_key_positions(n) on its own, for every n in 0..MaxN *)

InitPlace ==
  /\ pc = "place"
  /\ n \in 0..MaxN
  /\ log_file = "none"
  /\ log = NoLog
  /\ idx = 0
  /\ specs = <<>>
  /\ top = "none"
  /\ bottom = "none"
  /\ objs = NoObjects
  /\ mode = "OBJECT"
  /\ active = "none"
  /\ coords = <<>>
  /\ attempts = 0
  /\ draw = NoDraw
  /\ hemisphere = "none"
  /\ key_specs = <<>>
  /\ is_top = FALSE
  /\ i = 0
  /\ key = NoKey
  /\ tools = {}
  /\ pegs = <<>>
  /\ sockets = <<>>
  /\ top_built = Blank
  /\ exported = {}
  /\ fault = NoFault

NextPlace == KeyPositionsIter \/ KeyPositionsReturn

SpecPlace == InitPlace /\ [][NextPlace]_vars

-----------------------------------------------------------------------------
(* Properties *)

KeyOf(t) == <<t.shape, <<t.x, t.y>>>>
KeysOf(ts) == [k \in 1..Len(ts) |-> KeyOf(ts[k])]
IsPrefix(a, b) == Len(a) <= Len(b) /\ \A k \in 1..Len(a) : a[k] = b[k]
LowerEnd(t) == t.z - (t.height \div 2)
BottomDone == pc \in {"export_top", "export_bottom"}

(* C1: for every bead, the key specs add_keys works through for the top    *)
(* half (pegs) and for the bottom half (sockets) are the one sequence      *)
(* specs that generate_beads computed once for the bead: same shapes, same *)
(* positions, same order; when the bottom half is finished the two are     *)
(* equal.                                                                  *)
C1_SameKeySpecs ==
  /\ IsPrefix(KeysOf(pegs), specs)
  /\ IsPrefix(KeysOf(sockets), KeysOf(pegs))
  /\ BottomDone => KeysOf(pegs) = specs /\ KeysOf(sockets) = specs

C1_Witness ==
  /\ BottomDone
  /\ Len(sockets) = KEYS_PER_BEAD
  /\ \E k \in 1..Len(sockets) : sockets[k].x # 0
  /\ idx = 2

(* C2: any two distinct accepted positions are at least 2 x MAX_KEY_RADIUS *)
(* apart, after every iteration of the sampling loop and at the return.    *)
C2_NonOverlap ==
  \A a, b \in 1..Len(coords) :
    a # b => Sq(coords[a][1] - coords[b][1]) + Sq(coords[a][2] - coords[b][2])
               >= Sq(2 * MAX_KEY_RADIUS)

C2_Witness ==
  /\ pc = "placed"
  /\ Len(coords) >= 3
  /\ attempts > Len(coords)

(* C3: every accepted position lies within INNER_R - MAX_KEY_RADIUS of the *)
(* centre of the flat face.                                                *)
C3_Containment ==
  \A k \in 1..Len(coords) :
    Sq(coords[k][1]) + Sq(coords[k][2]) <= Sq(INNER_R - MAX_KEY_RADIUS)

C3_Witness ==
  /\ pc = "placed"
  /\ \E k \in 1..Len(coords) :
       /\ Sq(coords[k][1]) + Sq(coords[k][2]) = Sq(INNER_R - MAX_KEY_RADIUS)
       /\ coords[k][1] # 0
       /\ coords[k][2] # 0

(* C4: a failed boolean evaluation leaves the base hemisphere (geometry    *)
(* and modifier stack) as it was before, is logged once, and the loop goes *)
(* on to remove the tool and take the next key.                            *)
C4_FailureLeavesBase ==
  [][(pc = "boolean" /\ log'.bool_err # log.bool_err) =>
       /\ objs'[hemisphere] = objs[hemisphere]
       /\ log'.bool_err = log.bool_err + 1
       /\ pc' = "remove"
       /\ i' = i]_vars

(* C5: an unexpected failure during a bead's generation is caught by       *)
(* generate_beads and logged, no later bead is attempted, the log file is  *)
(* closed if it was open, and generate_beads returns without raising.      *)
C5_GracefulTermination ==
  /\ pc # "raised"
  /\ fault.stage # "none" =>
       /\ pc \in {"except", "finally", "returned"}
       /\ idx = fault.idx
       /\ pc # "except" => log.critical = 1
       /\ pc = "returned" => log_file # "open"

C5_Witness ==
  /\ pc = "returned"
  /\ fault.stage = "key"
  /\ fault.idx = 2
  /\ log_file = "closed"
  /\ log.critical = 1

(* C6: random_key_positions makes at most 1000 draws and returns at most n *)
(* positions, exactly n unless the budget ran out; a short list is paired  *)
(* with the first shapes of KEY_SHAPES, and the bead's two halves are      *)
(* still built and exported: a fatal error comes from a host failure only. *)
C6_BudgetAndShortfall ==
  /\ attempts <= ATTEMPT_LIMIT
  /\ Len(coords) <= n
  /\ pc = "placed" => Len(coords) = n \/ attempts = ATTEMPT_LIMIT
  /\ Len(specs) <= KEYS_PER_BEAD
  /\ \A k \in 1..Len(specs) : specs[k][1] = KEY_SHAPES[k]
  /\ pc = "make_top" => Len(specs) \in 1..KEYS_PER_BEAD
  /\ log.critical > 0 => fault.stage # "none"
  /\ (pc = "bead" /\ idx > 1) => exported = {"top", "bottom"} /\ KeysOf(sockets) = specs

C6_Witness ==
  /\ pc = "bead"
  /\ idx > 1
  /\ Len(specs) = 1
  /\ exported = {"top", "bottom"}
  /\ Len(sockets) = 1
  /\ fault.stage = "none"

C8_TopUntouched ==
  (top # "none" /\ top_built.exists) => objs[top] = top_built

(* C9: the radius of every candidate is U x sqrt(u) for the draw u, with   *)
(* U = INNER_R - MAX_KEY_RADIUS: r^2 = U^2 x u.                            *)
C9_UniformByArea ==
  draw.r >= 0 => Sq(draw.r) * draw.u[2] = Sq(INNER_R - MAX_KEY_RADIUS) * draw.u[1]

(* C10: each peg's part beyond the flat face fits the socket cut for it:   *)
(* same centre, a wider socket tool, and a socket tool that reaches        *)
(* (OVERLAP) at least as far below z = 0 as the peg tool does (PEG_LENGTH  *)
(* - OVERLAP).                                                             *)
C10_PegFitsSocket ==
  \A k \in 1..Len(sockets) :
    /\ k <= Len(pegs)
    /\ sockets[k].x = pegs[k].x
    /\ sockets[k].y = pegs[k].y
    /\ sockets[k].shape = pegs[k].shape
    /\ sockets[k].radius > pegs[k].radius
    /\ LowerEnd(pegs[k]) < 0
    /\ LowerEnd(pegs[k]) = -(PEG_LENGTH - OVERLAP)
    /\ LowerEnd(sockets[k]) = -OVERLAP
    /\ LowerEnd(sockets[k]) <= LowerEnd(pegs[k])

C10_Witness ==
  /\ BottomDone
  /\ Len(sockets) = KEYS_PER_BEAD
  /\ Len(pegs) = KEYS_PER_BEAD

=============================================================================
